---- MODULE Spec2Model ----
(***************************************************************************)
(* Model of tools/parse_wt_maps.py: the level.blk field extractor          *)
(* (parse_blk_file), the map record builder (extract_all_maps), the Rust   *)
(* fragment generator (generate_rust_code) and the pipeline driver (main). *)
(*                                                                         *)
(* Text is modelled as sequences of one-character strings, so that the     *)
(* regular expressions, str.lower, str.replace, str.title and float() are  *)
(* computed character by character as the Python code computes them.       *)
(***************************************************************************)
EXTENDS Integers, Sequences, FiniteSets, TLC

(***************************************************************************)
(* Bounds of the model.                                                    *)
(***************************************************************************)
\* largest number of entries the levels directory holds
MaxEntries == 2
\* largest number of text chunks a generated level.blk content is made of
MaxChunks == 2

(***************************************************************************)
(* Characters.                                                             *)
(***************************************************************************)
UpperChars == <<"A","B","C","D","E","F","G","H","I","J","K","L","M",
                "N","O","P","Q","R","S","T","U","V","W","X","Y","Z">>
LowerChars == <<"a","b","c","d","e","f","g","h","i","j","k","l","m",
                "n","o","p","q","r","s","t","u","v","w","x","y","z">>
DigitChars == <<"0","1","2","3","4","5","6","7","8","9">>

Range(f) == {f[i] : i \in DOMAIN f}

IndexIn(c, tbl) == CHOOSE i \in DOMAIN tbl : tbl[i] = c

\* str.lower on one character
LowerChar(c) == IF c \in Range(UpperChars) THEN LowerChars[IndexIn(c, UpperChars)] ELSE c
\* str.upper on one character
UpperChar(c) == IF c \in Range(LowerChars) THEN UpperChars[IndexIn(c, LowerChars)] ELSE c
IsCased(c) == c \in Range(UpperChars) \cup Range(LowerChars)

\* str.lower
Lower(s) == [i \in 1..Len(s) |-> LowerChar(s[i])]

\* s[i:].startswith(key), 1-based i
StartsWith(s, i, key) ==
    /\ i >= 1
    /\ i + Len(key) - 1 <= Len(s)
    /\ \A j \in 1..Len(key) : s[i + j - 1] = key[j]

\* the Python operator `sub in s`
Contains(s, sub) == \E i \in 1..(Len(s) + 1) : StartsWith(s, i, sub)

\* str.replace(old, new): non-overlapping occurrences, left to right
RECURSIVE ReplaceFrom(_, _, _, _)
ReplaceFrom(s, i, old, new) ==
    IF i > Len(s) THEN <<>>
    ELSE IF StartsWith(s, i, old)
         THEN new \o ReplaceFrom(s, i + Len(old), old, new)
         ELSE <<s[i]>> \o ReplaceFrom(s, i + 1, old, new)

Replace(s, old, new) == ReplaceFrom(s, 1, old, new)

\* str.title: a cased character is upper-cased when it follows an uncased
\* character (or starts the string) and lower-cased otherwise
Title(s) ==
    [i \in 1..Len(s) |->
        IF ~IsCased(s[i]) THEN s[i]
        ELSE IF i > 1 /\ IsCased(s[i - 1]) THEN LowerChar(s[i])
        ELSE UpperChar(s[i])]

(***************************************************************************)
(* The regular expressions of parse_blk_file.                              *)
(***************************************************************************)
\* \s
IsSpace(c) == c \in {" ", "\n", "\t"}
\* [\d.]
IsNumChar(c) == c \in Range(DigitChars) \cup {"."}

\* \s* starting at i (greedy): the first position that is not whitespace
RECURSIVE SkipWs(_, _)
SkipWs(s, i) == IF i <= Len(s) /\ IsSpace(s[i]) THEN SkipWs(s, i + 1) ELSE i

\* [\d.]+ starting at i (greedy): the first position after the run
RECURSIVE RunEnd(_, _)
RunEnd(s, i) == IF i <= Len(s) /\ IsNumChar(s[i]) THEN RunEnd(s, i + 1) ELSE i

CharAt(s, i) == IF i >= 1 /\ i <= Len(s) THEN s[i] ELSE ""

Slice(s, from, to) == IF to < from THEN <<>> ELSE SubSeq(s, from, to)

NoMatch == [found |-> FALSE, groups |-> <<>>]

\* key\s*:\s*([\d.]+) anchored at i
ScalarAt(s, key, i) ==
    IF ~StartsWith(s, i, key) THEN NoMatch
    ELSE LET c == SkipWs(s, i + Len(key))
         IN IF CharAt(s, c) # ":" THEN NoMatch
            ELSE LET b == SkipWs(s, c + 1)
                     e == RunEnd(s, b)
                 IN IF e = b THEN NoMatch
                    ELSE [found |-> TRUE, groups |-> <<Slice(s, b, e - 1)>>]

\* mapSize\s*:\s*\[\s*([\d.]+)\s*,\s*([\d.]+)\s*\] anchored at i
PairAt(s, key, i) ==
    IF ~StartsWith(s, i, key) THEN NoMatch
    ELSE LET c == SkipWs(s, i + Len(key))
         IN IF CharAt(s, c) # ":" THEN NoMatch
            ELSE LET o == SkipWs(s, c + 1)
                 IN IF CharAt(s, o) # "[" THEN NoMatch
                    ELSE LET b1 == SkipWs(s, o + 1)
                             e1 == RunEnd(s, b1)
                             m  == SkipWs(s, e1)
                             b2 == SkipWs(s, m + 1)
                             e2 == RunEnd(s, b2)
                             z  == SkipWs(s, e2)
                         IN IF \/ e1 = b1
                               \/ CharAt(s, m) # ","
                               \/ e2 = b2
                               \/ CharAt(s, z) # "]"
                            THEN NoMatch
                            ELSE [found |-> TRUE,
                                  groups |-> <<Slice(s, b1, e1 - 1), Slice(s, b2, e2 - 1)>>]

\* re.search: the match at the leftmost position that has one
SearchScalar(s, key) ==
    LET hits == {i \in 1..Len(s) : ScalarAt(s, key, i).found}
    IN IF hits = {} THEN NoMatch
       ELSE ScalarAt(s, key, CHOOSE i \in hits : \A j \in hits : i <= j)

SearchPair(s, key) ==
    LET hits == {i \in 1..Len(s) : PairAt(s, key, i).found}
    IN IF hits = {} THEN NoMatch
       ELSE PairAt(s, key, CHOOSE i \in hits : \A j \in hits : i <= j)

(***************************************************************************)
(* float(): decimal lexemes over [\d.].  A float is kept as the pair       *)
(* (m, k) standing for m / 10^k with k minimal, which identifies the       *)
(* double of every short decimal the model produces.                       *)
(***************************************************************************)
DigitVal(c) == IndexIn(c, DigitChars) - 1

CountDots(s) == Cardinality({i \in 1..Len(s) : s[i] = "."})
CountDigits(s) == Cardinality({i \in 1..Len(s) : s[i] # "."})

\* float(lexeme) raises ValueError unless the lexeme has at most one point and
\* at least one digit
FloatOk(s) == CountDots(s) <= 1 /\ CountDigits(s) >= 1

RECURSIVE DigitsToNat(_, _)
DigitsToNat(s, acc) ==
    IF s = <<>> THEN acc
    ELSE IF Head(s) = "." THEN DigitsToNat(Tail(s), acc)
    ELSE DigitsToNat(Tail(s), acc * 10 + DigitVal(Head(s)))

FracLen(s) ==
    IF CountDots(s) = 0 THEN 0
    ELSE Len(s) - (CHOOSE i \in 1..Len(s) : s[i] = ".")

RECURSIVE Normalize(_, _)
Normalize(m, k) ==
    IF k > 0 /\ m % 10 = 0 THEN Normalize(m \div 10, k - 1)
    ELSE [m |-> m, k |-> k]

\* float(lexeme) for a lexeme with FloatOk
ToFloat(s) == Normalize(DigitsToNat(s, 0), FracLen(s))

RECURSIVE Pow10(_)
Pow10(k) == IF k = 0 THEN 1 ELSE 10 * Pow10(k - 1)

RECURSIVE NatToDigits(_)
NatToDigits(n) ==
    IF n < 10 THEN <<DigitChars[n + 1]>>
    ELSE NatToDigits(n \div 10) \o <<DigitChars[(n % 10) + 1]>>

RECURSIVE PadLeft(_, _)
PadLeft(s, n) == IF Len(s) >= n THEN s ELSE PadLeft(<<"0">> \o s, n)

\* str(float) as an f-string renders it (repr, positional notation)
FloatStr(f) ==
    NatToDigits(f.m \div Pow10(f.k)) \o <<".">> \o
    (IF f.k = 0 THEN <<"0">> ELSE PadLeft(NatToDigits(f.m % Pow10(f.k)), f.k))

\* truth value of a float
FloatTruthy(f) == f.m # 0

(***************************************************************************)
(* Fixed texts of the program.                                             *)
(***************************************************************************)
KeyMapSize == <<"m","a","p","S","i","z","e">>
KeyGridStep == <<"g","r","i","d","S","t","e","p">>
KeyAirGridStep == <<"a","i","r","G","r","i","d","S","t","e","p">>
KeyNavalGridStep == <<"n","a","v","a","l","G","r","i","d","S","t","e","p">>
TokGround == <<"g","r","o","u","n","d">>
TokTank == <<"t","a","n","k">>
TokAir == <<"a","i","r">>
TokNaval == <<"n","a","v","a","l">>
TokUnknown == <<"u","n","k","n","o","w","n">>
TxtAvg == <<"a","v","g","_">>
TxtUnderscore == <<"_">>
TxtSpace == <<" ">>
TxtComment == <<" "," "," "," "," "," "," "," ","/","/"," ">>
TxtInsertOpen == <<" "," "," "," "," "," "," "," ","s","e","l","f",".","m","a","p","s",".","i","n","s","e","r","t","(","\"">>
TxtInsertClose == <<"\"",".","t","o","_","s","t","r","i","n","g","(",")",","," ","M","a","p","G","r","i","d","I","n","f","o"," ","{">>
TxtNameOpen == <<" "," "," "," "," "," "," "," "," "," "," "," ","n","a","m","e",":"," ","\"">>
TxtLocalizedOpen == <<" "," "," "," "," "," "," "," "," "," "," "," ","l","o","c","a","l","i","z","e","d","_","n","a","m","e",":"," ","\"">>
TxtStrClose == <<"\"",".","t","o","_","s","t","r","i","n","g","(",")",",">>
TxtGround == <<" "," "," "," "," "," "," "," "," "," "," "," ","g","r","o","u","n","d","_","g","r","i","d","_","s","t","e","p",":"," ">>
TxtAir == <<" "," "," "," "," "," "," "," "," "," "," "," ","a","i","r","_","g","r","i","d","_","s","t","e","p",":"," ">>
TxtNaval == <<" "," "," "," "," "," "," "," "," "," "," "," ","n","a","v","a","l","_","g","r","i","d","_","s","t","e","p",":"," ">>
TxtMapSizeOpen == <<" "," "," "," "," "," "," "," "," "," "," "," ","m","a","p","_","s","i","z","e",":"," ","[">>
TxtMapSizeClose == <<"]",",">>
TxtModesOpen == <<" "," "," "," "," "," "," "," "," "," "," "," ","g","a","m","e","_","m","o","d","e","s",":"," ","v","e","c","!","[">>
TxtModesClose == <<"]",",">>
TxtBlockClose == <<" "," "," "," "," "," "," "," ","}",")",";">>
TxtSomeOpen == <<"S","o","m","e","(">>
TxtSomeClose == <<")">>
TxtNone == <<"N","o","n","e">>
TxtComma == <<",">>
TxtCommaSpace == <<","," ">>
TxtQuote == <<"\"">>
TxtToString == <<"\"",".","t","o","_","s","t","r","i","n","g","(",")">>

\* the float 4096.0 of the default map size
DefaultSide == [m |-> 4096, k |-> 0]
DefaultMapSize == <<DefaultSide, DefaultSide>>

(***************************************************************************)
(* Python dictionaries are functions on the set of keys they hold.         *)
(***************************************************************************)
EmptyDict == <<>>
Has(d, k) == k \in DOMAIN d
\* dict.get(k, default)
Get(d, k, default) == IF Has(d, k) THEN d[k] ELSE default
\* d[k] = v
Put(d, k, v) == (k :> v) @@ d
\* truth value of a dictionary or list
Truthy(d) == DOMAIN d # {}

(***************************************************************************)
(* parse_blk_file.  A file is [readable, content]; open() raises OSError   *)
(* on an unreadable file, and float() raises ValueError on a bad lexeme;   *)
(* both are caught by the handler that returns the empty dictionary.       *)
(***************************************************************************)
\* DetectModes with the air check moved before the ground check
DetectModes_AirFirst(content) ==
    LET low == Lower(content)
    IN (IF Contains(low, TokAir) THEN <<TokAir>> ELSE <<>>)
       \o (IF Contains(low, TokGround) \/ Contains(low, TokTank) THEN <<TokGround>> ELSE <<>>)
       \o (IF Contains(low, TokNaval) THEN <<TokNaval>> ELSE <<>>)

\* the game mode tags found in the content, in the order the code appends them
DetectModes(content) ==
    LET low == Lower(content)
    IN (IF Contains(low, TokGround) \/ Contains(low, TokTank) THEN <<TokGround>> ELSE <<>>)
       \o (IF Contains(low, TokAir) THEN <<TokAir>> ELSE <<>>)
       \o (IF Contains(low, TokNaval) THEN <<TokNaval>> ELSE <<>>)

\* data[field] = float(match.group(1)) when the pattern matched
WithScalar(data, field, match) ==
    IF match.found THEN Put(data, field, ToFloat(match.groups[1])) ELSE data

\* some float() call of the function raises ValueError
FloatRaises(matches) ==
    \E i \in DOMAIN matches :
        /\ matches[i].found
        /\ \E g \in DOMAIN matches[i].groups : ~FloatOk(matches[i].groups[g])

\* parse_blk_file storing `modes` without the ['unknown'] fallback
parse_blk_file_NoFallback(file) ==
    IF ~file.readable THEN EmptyDict
    ELSE LET content == file.content
             size_match == SearchPair(content, KeyMapSize)
             ground_grid == SearchScalar(content, KeyGridStep)
             air_grid == SearchScalar(content, KeyAirGridStep)
             naval_grid == SearchScalar(content, KeyNavalGridStep)
         IN IF FloatRaises(<<size_match, ground_grid, air_grid, naval_grid>>)
            THEN EmptyDict
            ELSE LET d0 == IF size_match.found
                           THEN Put(EmptyDict, "map_size",
                                    <<ToFloat(size_match.groups[1]),
                                      ToFloat(size_match.groups[2])>>)
                           ELSE EmptyDict
                     d1 == WithScalar(d0, "ground_grid_step", ground_grid)
                     d2 == WithScalar(d1, "air_grid_step", air_grid)
                     d3 == WithScalar(d2, "naval_grid_step", naval_grid)
                 IN Put(d3, "game_modes", DetectModes(content))

parse_blk_file(file) ==
    IF ~file.readable THEN EmptyDict
    ELSE LET content == file.content
             size_match == SearchPair(content, KeyMapSize)
             ground_grid == SearchScalar(content, KeyGridStep)
             air_grid == SearchScalar(content, KeyAirGridStep)
             naval_grid == SearchScalar(content, KeyNavalGridStep)
             modes == DetectModes(content)
         IN IF FloatRaises(<<size_match, ground_grid, air_grid, naval_grid>>)
            THEN EmptyDict
            ELSE LET d0 == IF size_match.found
                           THEN Put(EmptyDict, "map_size",
                                    <<ToFloat(size_match.groups[1]),
                                      ToFloat(size_match.groups[2])>>)
                           ELSE EmptyDict
                     d1 == WithScalar(d0, "ground_grid_step", ground_grid)
                     d2 == WithScalar(d1, "air_grid_step", air_grid)
                     d3 == WithScalar(d2, "naval_grid_step", naval_grid)
                 IN Put(d3, "game_modes", IF Truthy(modes) THEN modes ELSE <<TokUnknown>>)

(***************************************************************************)
(* The record of one map, and the insertion-ordered dictionary `maps`,     *)
(* kept as the sequence of its (key, value) items.                         *)
(***************************************************************************)
\* map_name.replace('avg_', '').replace('_', ' ').title()
LocalizedName(map_name) ==
    Title(Replace(Replace(map_name, TxtAvg, <<>>), TxtUnderscore, TxtSpace))

\* {'name': ..., 'localized_name': ..., **map_data}
MapRecord(map_name, map_data) ==
    map_data @@ ("name" :> map_name) @@ ("localized_name" :> LocalizedName(map_name))

Keys(items) == [i \in 1..Len(items) |-> items[i][1]]

\* maps[key] = value: a new key goes last, an existing key keeps its place
DictSet(items, key, value) ==
    IF \E i \in 1..Len(items) : items[i][1] = key
    THEN [i \in 1..Len(items) |-> IF items[i][1] = key THEN <<key, value>> ELSE items[i]]
    ELSE Append(items, <<key, value>>)

(***************************************************************************)
(* sorted(maps.items()): ascending by key, strings compared by code point. *)
(***************************************************************************)
\* the characters of the model in code point order
CodeOrder == <<"\t", "\n", " ", "\"", "(", ")", ",", ".", "/">> \o DigitChars \o <<":", ";">>
             \o UpperChars \o <<"[", "\\", "]", "_">> \o LowerChars \o <<"{", "}">>

Ord(c) == IndexIn(c, CodeOrder)

RECURSIVE StrLess(_, _)
StrLess(a, b) ==
    IF b = <<>> THEN FALSE
    ELSE IF a = <<>> THEN TRUE
    ELSE IF Head(a) = Head(b) THEN StrLess(Tail(a), Tail(b))
    ELSE Ord(Head(a)) < Ord(Head(b))

RECURSIVE InsertSorted(_, _)
InsertSorted(sortedItems, item) ==
    IF sortedItems = <<>> THEN <<item>>
    ELSE IF StrLess(item[1], Head(sortedItems)[1])
         THEN <<item>> \o sortedItems
         ELSE <<Head(sortedItems)>> \o InsertSorted(Tail(sortedItems), item)

RECURSIVE Sorted(_)
Sorted(items) ==
    IF items = <<>> THEN <<>>
    ELSE InsertSorted(Sorted(SubSeq(items, 1, Len(items) - 1)), items[Len(items)])

(***************************************************************************)
(* generate_rust_code.  The fragment is kept as the sequence of the blocks *)
(* that '\n'.join concatenates, each block as the sequence of its lines.   *)
(***************************************************************************)
\* f"Some({step})" if step else "None"; step is None when the key is missing
RenderStep(data, field) ==
    IF Has(data, field) /\ FloatTruthy(data[field])
    THEN TxtSomeOpen \o FloatStr(data[field]) \o TxtSomeClose
    ELSE TxtNone

\* {map_size[0]}, {map_size[1]}
RenderMapSize(data) ==
    LET map_size == Get(data, "map_size", DefaultMapSize)
    IN FloatStr(map_size[1]) \o TxtCommaSpace \o FloatStr(map_size[2])

\* the text the f-string puts between the quotes of a string literal
RenderStr(s) == s

RECURSIVE JoinModes(_)
JoinModes(modes) ==
    IF modes = <<>> THEN <<>>
    ELSE IF Len(modes) = 1 THEN TxtQuote \o RenderStr(modes[1]) \o TxtToString
    ELSE TxtQuote \o RenderStr(modes[1]) \o TxtToString \o TxtCommaSpace \o JoinModes(Tail(modes))

RenderBlock(map_name, data) ==
    << <<>>,
       TxtComment \o data["localized_name"],
       TxtInsertOpen \o RenderStr(map_name) \o TxtInsertClose,
       TxtNameOpen \o RenderStr(map_name) \o TxtStrClose,
       TxtLocalizedOpen \o RenderStr(data["localized_name"]) \o TxtStrClose,
       TxtGround \o RenderStep(data, "ground_grid_step") \o TxtComma,
       TxtAir \o RenderStep(data, "air_grid_step") \o TxtComma,
       TxtNaval \o RenderStep(data, "naval_grid_step") \o TxtComma,
       TxtMapSizeOpen \o RenderMapSize(data) \o TxtMapSizeClose,
       TxtModesOpen \o JoinModes(data["game_modes"]) \o TxtModesClose,
       TxtBlockClose >>

\* the order in which the generator walks the dictionary
RustOrder(items) == Sorted(items)

generate_rust_code(items) ==
    LET ordered == RustOrder(items)
    IN [i \in 1..Len(ordered) |-> RenderBlock(ordered[i][1], ordered[i][2])]

(***************************************************************************)
(* Inputs: directory names and level.blk contents.                         *)
(***************************************************************************)
NameAvg == <<"a","v","g","_","k","u","r","s","k">>
NameB == <<"b","e","r","l","i","n">>
NameQuote == <<"a","\"","b">>
NameBackslash == <<"c","\\">>

Names == {NameAvg, NameB, NameQuote, NameBackslash}

ChunkSize == <<"m","a","p","S","i","z","e",":"," ","[","4","0","9","6",".","0",","," ","4","0","9","6",".","0","]","\n">>
ChunkGrid == <<"g","r","i","d","S","t","e","p",":"," ","5","0",".","0","\n">>
ChunkTank == <<"t","a","n","k">>
ChunkZero == <<"g","r","i","d","S","t","e","p",":","0",".","0"," ">>
ChunkBad == <<"g","r","i","d","S","t","e","p",":","1",".","2",".","3"," ">>
ChunkDot == <<"a","i","r","G","r","i","d","S","t","e","p",":"," ",".">>
ChunkAirStep == <<"a","i","r","G","r","i","d","S","t","e","p"," ",":"," ","1","0","0","\n">>
ChunkNavalStep == <<"n","a","v","a","l","G","r","i","d","S","t","e","p",":","2","5">>
ChunkDigits == <<"5","0">>
ChunkNaval == <<"N","a","v","a","l"," ">>
ChunkSizeZero == <<"m","a","p","S","i","z","e",":","[","0",",","1",".","]">>

Chunks == {ChunkSize, ChunkGrid, ChunkTank, ChunkZero, ChunkBad, ChunkDot, ChunkAirStep,
           ChunkNavalStep, ChunkDigits, ChunkNaval, ChunkSizeZero}

RECURSIVE ConcatAll(_)
ConcatAll(chunks) == IF chunks = <<>> THEN <<>> ELSE Head(chunks) \o ConcatAll(Tail(chunks))

\* every text made of at most MaxChunks chunks
Contents == UNION {{ConcatAll(cs) : cs \in [1..n -> Chunks]} : n \in 0..MaxChunks}

\* the contents used when the directory holds several maps
FewContents == {<<>>,
                ChunkSize \o ChunkGrid \o ChunkTank,
                ChunkBad \o ChunkNavalStep,
                ChunkZero \o ChunkAirStep \o ChunkNaval}

NotADir(n) == [name |-> n, is_dir |-> FALSE, has_blk |-> FALSE, readable |-> FALSE, content |-> <<>>]
NoBlk(n) == [name |-> n, is_dir |-> TRUE, has_blk |-> FALSE, readable |-> FALSE, content |-> <<>>]
Unreadable(n) == [name |-> n, is_dir |-> TRUE, has_blk |-> TRUE, readable |-> FALSE, content |-> <<>>]
Readable(n, c) == [name |-> n, is_dir |-> TRUE, has_blk |-> TRUE, readable |-> TRUE, content |-> c]

EntriesOf(n, contents) ==
    {NotADir(n), NoBlk(n), Unreadable(n)} \cup {Readable(n, c) : c \in contents}

\* a directory holds at most one entry of a name
DistinctNames(d) == \A e1, e2 \in d : e1.name = e2.name => e1 = e2

FewNames == Names \ {NameBackslash}

\* the levels directories of the model: up to MaxEntries entries with one of
\* the few contents, or one entry with any content
Directories ==
    {d \in SUBSET (UNION {EntriesOf(n, FewContents) : n \in FewNames}) :
        Cardinality(d) <= MaxEntries /\ DistinctNames(d)}
    \cup {{e} : e \in UNION {EntriesOf(n, Contents) : n \in Names}}

\* the orders in which iterdir can return the entries of a directory
Listings(d) ==
    {l \in [1..Cardinality(d) -> d] : \A i, j \in 1..Cardinality(d) : l[i] = l[j] => i = j}

(***************************************************************************)
(* State.                                                                  *)
(***************************************************************************)
VARIABLES
    pathValid,      \* wt_path.exists() in main
    levelsExists,   \* levels_path.exists() in extract_all_maps
    dir,            \* the entries of the levels directory
    run,            \* "first" or "second" run of the pipeline on this input
    pc,             \* position of main
    listing,        \* the order of levels_path.iterdir() in this run
    idx,            \* position of the loop of extract_all_maps in the listing
    map_data,       \* the result of the last parse_blk_file call
    maps,           \* the dictionary built by extract_all_maps
    jsonFile,       \* wt_maps_database.json
    rustFile,       \* map_database_generated.rs
    startJson,      \* wt_maps_database.json when this run started
    startRust,      \* map_database_generated.rs when this run started
    firstPc         \* how the first run ended

vars == <<pathValid, levelsExists, dir, run, pc, listing, idx, map_data, maps,
          jsonFile, rustFile, startJson, startRust, firstPc>>

input == <<pathValid, levelsExists, dir>>

NoFile == [state |-> "absent", body |-> <<>>]
JsonDoc(items) == [state |-> "complete", body |-> items]
RustDoc(items) ==
    [state |-> "complete", body |-> [count |-> Len(items), code |-> generate_rust_code(items)]]

Init ==
    /\ pathValid \in BOOLEAN
    /\ levelsExists \in BOOLEAN
    /\ dir \in Directories
    /\ (~pathValid => ~levelsExists)
    /\ (~levelsExists => dir = {})
    /\ run = "first"
    /\ pc = "start"
    /\ listing = <<>>
    /\ idx = 1
    /\ map_data = EmptyDict
    /\ maps = <<>>
    /\ jsonFile = NoFile
    /\ rustFile = NoFile
    /\ startJson = NoFile
    /\ startRust = NoFile
    /\ firstPc = "none"

(***************************************************************************)
(* main and extract_all_maps, one action per step.                         *)
(***************************************************************************)
\* main: the entered path does not exist
MainInvalidPath ==
    /\ pc = "start"
    /\ ~pathValid
    /\ pc' = "halted"
    /\ UNCHANGED <<input, run, listing, idx, map_data, maps, jsonFile, rustFile,
                   startJson, startRust, firstPc>>

\* extract_all_maps: the levels directory is missing, return {}
ExtractNoLevels ==
    /\ pc = "start"
    /\ pathValid
    /\ ~levelsExists
    /\ maps' = <<>>
    /\ pc' = "extracted"
    /\ UNCHANGED <<input, run, listing, idx, map_data, jsonFile, rustFile,
                   startJson, startRust, firstPc>>

\* extract_all_maps: maps = {} and the loop starts on the directory listing
ExtractBegin ==
    /\ pc = "start"
    /\ pathValid
    /\ levelsExists
    /\ listing' \in Listings(dir)
    /\ idx' = 1
    /\ maps' = <<>>
    /\ pc' = "iter"
    /\ UNCHANGED <<input, run, map_data, jsonFile, rustFile, startJson, startRust, firstPc>>

\* the dictionary after the body of the loop ran on one entry
AfterEntry(items, entry, parsed) ==
    IF Truthy(parsed) THEN DictSet(items, entry.name, MapRecord(entry.name, parsed)) ELSE items

\* the loop of extract_all_maps leaving the listing at the first file that fails
ExtractEntry_StopsOnFailure ==
    /\ pc = "iter"
    /\ idx <= Len(listing)
    /\ LET level_dir == listing[idx]
       IN IF ~level_dir.is_dir \/ ~level_dir.has_blk
          THEN UNCHANGED <<map_data, maps>> /\ idx' = idx + 1
          ELSE /\ map_data' = parse_blk_file(level_dir)
               /\ maps' = AfterEntry(maps, level_dir, map_data')
               /\ idx' = IF Truthy(map_data') THEN idx + 1 ELSE Len(listing) + 1
    /\ UNCHANGED <<input, run, pc, listing, jsonFile, rustFile, startJson, startRust, firstPc>>

\* extract_all_maps: one iteration of the loop
ExtractEntry ==
    /\ pc = "iter"
    /\ idx <= Len(listing)
    /\ LET level_dir == listing[idx]
       IN IF ~level_dir.is_dir \/ ~level_dir.has_blk
          THEN UNCHANGED <<map_data, maps>>
          ELSE /\ map_data' = parse_blk_file(level_dir)
               /\ maps' = AfterEntry(maps, level_dir, map_data')
    /\ idx' = idx + 1
    /\ UNCHANGED <<input, run, pc, listing, jsonFile, rustFile, startJson, startRust, firstPc>>

\* extract_all_maps: the listing is exhausted, return maps
ExtractReturn ==
    /\ pc = "iter"
    /\ idx > Len(listing)
    /\ pc' = "extracted"
    /\ UNCHANGED <<input, run, listing, idx, map_data, maps, jsonFile, rustFile,
                   startJson, startRust, firstPc>>

\* main: `if not maps: return`
MainNoMaps ==
    /\ pc = "extracted"
    /\ ~Truthy(maps)
    /\ pc' = "halted"
    /\ UNCHANGED <<input, run, listing, idx, map_data, maps, jsonFile, rustFile,
                   startJson, startRust, firstPc>>

\* main writing the JSON document without the `if not maps: return` before it
MainSaveJson_Unguarded ==
    /\ pc = "extracted"
    /\ jsonFile' = JsonDoc(maps)
    /\ pc' = "json_saved"
    /\ UNCHANGED <<input, run, listing, idx, map_data, maps, rustFile,
                   startJson, startRust, firstPc>>

\* main: json.dump(maps, f, indent=2) writes the members in dictionary order
MainSaveJson ==
    /\ pc = "extracted"
    /\ Truthy(maps)
    /\ jsonFile' = JsonDoc(maps)
    /\ pc' = "json_saved"
    /\ UNCHANGED <<input, run, listing, idx, map_data, maps, rustFile,
                   startJson, startRust, firstPc>>

\* main: open() of the JSON file raises (file untouched), or a write raises
\* after open() truncated the file (a proper prefix of the document is left)
MainSaveJsonFails ==
    /\ pc = "extracted"
    /\ Truthy(maps)
    /\ \/ UNCHANGED jsonFile
       \/ \E n \in 0..(Len(maps) - 1) :
            jsonFile' = [state |-> "partial", body |-> SubSeq(maps, 1, n)]
    /\ pc' = "crashed"
    /\ UNCHANGED <<input, run, listing, idx, map_data, maps, rustFile,
                   startJson, startRust, firstPc>>

\* main: generate_rust_code(maps) and the three writes of the Rust file
MainSaveRust ==
    /\ pc = "json_saved"
    /\ rustFile' = RustDoc(maps)
    /\ pc' = "done"
    /\ UNCHANGED <<input, run, listing, idx, map_data, maps, jsonFile,
                   startJson, startRust, firstPc>>

\* main: open() of the Rust file raises (file untouched), or a write raises
\* after open() truncated the file
MainSaveRustFails ==
    /\ pc = "json_saved"
    /\ \/ UNCHANGED rustFile
       \/ \E n \in 0..(Len(maps) - 1) :
            rustFile' = [state |-> "partial",
                         body |-> [count |-> Len(maps),
                                   code |-> SubSeq(generate_rust_code(maps), 1, n)]]
    /\ pc' = "crashed"
    /\ UNCHANGED <<input, run, listing, idx, map_data, maps, jsonFile,
                   startJson, startRust, firstPc>>

Ended == pc \in {"halted", "done", "crashed"}

\* the program is started again on the unchanged directory
Rerun ==
    /\ Ended
    /\ run = "first"
    /\ run' = "second"
    /\ firstPc' = pc
    /\ pc' = "start"
    /\ listing' = <<>>
    /\ idx' = 1
    /\ map_data' = EmptyDict
    /\ maps' = <<>>
    /\ startJson' = jsonFile
    /\ startRust' = rustFile
    /\ UNCHANGED <<input, jsonFile, rustFile>>

Next ==
    \/ MainInvalidPath
    \/ ExtractNoLevels
    \/ ExtractBegin
    \/ ExtractEntry
    \/ ExtractReturn
    \/ MainNoMaps
    \/ MainSaveJson
    \/ MainSaveJsonFails
    \/ MainSaveRust
    \/ MainSaveRustFails
    \/ Rerun

Spec == Init /\ [][Next]_vars

TypeOK ==
    /\ pc \in {"start", "iter", "extracted", "json_saved", "halted", "done", "crashed"}
    /\ run \in {"first", "second"}
    /\ idx \in 1..(Len(listing) + 1)

(***************************************************************************)
(* Vocabulary of the properties.                                           *)
(***************************************************************************)
StepFields == {"ground_grid_step", "air_grid_step", "naval_grid_step"}
OptionalFields == StepFields \cup {"map_size"}

\* the entries of the directory that are map subdirectories with a level.blk
MapEntries == {e \in dir : e.is_dir /\ e.has_blk}

\* the line of a rendered block that carries a field, and the text before the value
FieldLine(block, field) ==
    CASE field = "ground_grid_step" -> block[6]
      [] field = "air_grid_step" -> block[7]
      [] field = "naval_grid_step" -> block[8]
      [] field = "map_size" -> block[9]

FieldPrefix(field) ==
    CASE field = "ground_grid_step" -> TxtGround
      [] field = "air_grid_step" -> TxtAir
      [] field = "naval_grid_step" -> TxtNaval
      [] field = "map_size" -> SubSeq(TxtMapSizeOpen, 1, Len(TxtMapSizeOpen) - 1)

\* the value of the field is rendered as Some(...)
SomeForm(block, field) ==
    StartsWith(FieldLine(block, field), Len(FieldPrefix(field)) + 1, TxtSomeOpen)
\* the value of the field is rendered as None
NoneForm(block, field) ==
    FieldLine(block, field) = FieldPrefix(field) \o TxtNone \o TxtComma

\* the identifier a rendered block carries on its `name:` line
BlockName(block) ==
    Slice(block[4], Len(TxtNameOpen) + 1, Len(block[4]) - Len(TxtStrClose))

IsAscending(keys) == \A i \in 1..(Len(keys) - 1) : StrLess(keys[i], keys[i + 1])

RustWritten == rustFile.state = "complete"
JsonWritten == jsonFile.state = "complete"

\* the record of a key in the dictionary
HasKey(items, key) == \E i \in 1..Len(items) : items[i][1] = key
ValueOf(items, key) == items[CHOOSE i \in 1..Len(items) : items[i][1] = key][2]

\* the patterns that match in a text, with the lexemes they captured
MatchOf(content, field) ==
    CASE field = "map_size" -> SearchPair(content, KeyMapSize)
      [] field = "ground_grid_step" -> SearchScalar(content, KeyGridStep)
      [] field = "air_grid_step" -> SearchScalar(content, KeyAirGridStep)
      [] field = "naval_grid_step" -> SearchScalar(content, KeyNavalGridStep)

\* the pattern of the field matches and every captured lexeme is a number
Convertible(content, field) ==
    /\ MatchOf(content, field).found
    /\ \A g \in DOMAIN MatchOf(content, field).groups : FloatOk(MatchOf(content, field).groups[g])

\* the pattern of the field matches a lexeme that is not a number
Corrupt(content, field) ==
    MatchOf(content, field).found /\ ~Convertible(content, field)

\* reading or parsing the level.blk of the entry fails
FileFails(e) == ~e.readable \/ \E f \in OptionalFields : Corrupt(e.content, f)

\* the entry the loop of extract_all_maps has just handled
JustParsed(e) ==
    /\ pc = "iter"
    /\ idx > 1
    /\ e = listing[idx - 1]
    /\ e.is_dir /\ e.has_blk

(***************************************************************************)
(* C1: every optional field of every record is rendered in the Some form   *)
(* exactly when the record holds it and in the None form exactly when it   *)
(* does not, so that a present 0.0 never renders as an absent value.       *)
(***************************************************************************)
C1_OptionalRenderedByPresence ==
    (pc = "done" /\ RustWritten) =>
        \A i \in 1..Len(rustFile.body.code) :
            \A f \in OptionalFields :
                LET rec == RustOrder(maps)[i][2]
                    block == rustFile.body.code[i]
                IN /\ SomeForm(block, f) <=> Has(rec, f)
                   /\ NoneForm(block, f) <=> ~Has(rec, f)

(***************************************************************************)
(* C2: a matched lexeme that is not a number costs only its own field:     *)
(* the partial record of a readable file still holds game_modes and every  *)
(* field whose pattern matched a number.                                   *)
(***************************************************************************)
C2_CorruptFieldOmittedAlone ==
    \A e \in dir :
        (JustParsed(e) /\ e.readable) =>
            /\ Has(map_data, "game_modes")
            /\ \A f \in OptionalFields :
                 /\ Convertible(e.content, f) => Has(map_data, f)
                 /\ Corrupt(e.content, f) => ~Has(map_data, f)

C4_BothOutputsAscending ==
    (pc = "done" /\ JsonWritten /\ RustWritten) =>
        /\ Keys(jsonFile.body) = [i \in 1..Len(rustFile.body.code) |-> BlockName(rustFile.body.code[i])]
        /\ IsAscending(Keys(jsonFile.body))

(***************************************************************************)
(* C5: no output file is written before extract_all_maps has returned,     *)
(* and however a run ends, the two output files are either both untouched  *)
(* or both the complete rendering of the collection of this run.           *)
(***************************************************************************)
C5_OutputsNeverInconsistent ==
    /\ pc \in {"start", "iter"} => (jsonFile = startJson /\ rustFile = startRust)
    /\ Ended =>
         \/ jsonFile = startJson /\ rustFile = startRust
         \/ jsonFile = JsonDoc(maps) /\ rustFile = RustDoc(maps)

(***************************************************************************)
(* C6: when extract_all_maps has returned, the traversal has reached the   *)
(* end of the listing and the collection holds a record for exactly the    *)
(* map subdirectories whose level.blk was read and parsed without failure; *)
(* a failure on one file removes that map only.                            *)
(***************************************************************************)
C6_FailureSkipsOnlyThatMap ==
    (pc = "extracted" /\ levelsExists) =>
        /\ idx = Len(listing) + 1
        /\ \A e \in MapEntries : HasKey(maps, e.name) <=> ~FileFails(e)

\* extract_all_maps returned a record of a map that was listed after a map
\* whose file failed
C6_Witness ==
    /\ pc = "extracted"
    /\ \E i, j \in 1..Len(listing) :
         /\ i < j
         /\ listing[i] \in MapEntries /\ FileFails(listing[i])
         /\ listing[j] \in MapEntries /\ HasKey(maps, listing[j].name)

\* the record holds none of the optional fields and the fallback mode
BareUnknown(rec) ==
    /\ \A f \in OptionalFields : ~Has(rec, f)
    /\ Has(rec, "game_modes") /\ rec["game_modes"] = <<TokUnknown>>

(***************************************************************************)
(* C7 as stated: a map subdirectory whose config file is empty or          *)
(* unreadable yields a record with every optional field absent and         *)
(* game_modes = ["unknown"].                                               *)
(***************************************************************************)
C7_EmptyOrUnreadableYieldsUnknown ==
    pc = "extracted" =>
        \A e \in MapEntries :
            (~e.readable \/ e.content = <<>>) =>
                HasKey(maps, e.name) /\ BareUnknown(ValueOf(maps, e.name))

(***************************************************************************)
(* C7 amended: a map subdirectory whose config file is empty yields a      *)
(* record with every optional field absent and game_modes = ["unknown"];   *)
(* one whose config file is unreadable yields no record.                   *)
(***************************************************************************)
C7_EmptyYieldsUnknownUnreadableNone ==
    pc = "extracted" =>
        \A e \in MapEntries :
            /\ (e.readable /\ e.content = <<>>) =>
                  HasKey(maps, e.name) /\ BareUnknown(ValueOf(maps, e.name))
            /\ ~e.readable => ~HasKey(maps, e.name)

\* extract_all_maps returned from a directory with an empty and an unreadable file
C7_Witness ==
    /\ pc = "extracted"
    /\ \E e \in MapEntries : e.readable /\ e.content = <<>> /\ HasKey(maps, e.name)
    /\ \E e \in MapEntries : ~e.readable

\* the literal that opens with the quote before position `from` ends at the
\* first quote that no backslash escapes; 0 when the line ends before
RECURSIVE LiteralEnd(_, _)
LiteralEnd(line, from) ==
    IF from > Len(line) THEN 0
    ELSE IF line[from] = "\\" THEN LiteralEnd(line, from + 2)
    ELSE IF line[from] = "\"" THEN from
    ELSE LiteralEnd(line, from + 1)

\* the literal of the line holds the text and closes at the quote put after it
ClosesAfter(line, prefix, text) ==
    LiteralEnd(line, Len(prefix) + 1) = Len(prefix) + Len(text) + 1

(***************************************************************************)
(* C8: every string literal of an identifier or display name in the        *)
(* fragment ends at its intended closing quote, also when the text holds   *)
(* a double quote or a backslash.                                          *)
(***************************************************************************)
C8_StringLiteralsClosed ==
    (pc = "done" /\ RustWritten) =>
        \A i \in 1..Len(rustFile.body.code) :
            LET block == rustFile.body.code[i]
                rec == RustOrder(maps)[i][2]
            IN /\ ClosesAfter(block[3], TxtInsertOpen, rec["name"])
               /\ ClosesAfter(block[4], TxtNameOpen, rec["name"])
               /\ ClosesAfter(block[5], TxtLocalizedOpen, rec["localized_name"])

ModeRank(m) ==
    CASE m = TokGround -> 1
      [] m = TokAir -> 2
      [] m = TokNaval -> 3
      [] OTHER -> 0

(***************************************************************************)
(* C9: game_modes of every record of the collection is non-empty and is    *)
(* either ["unknown"] alone or a duplicate-free subsequence of             *)
(* (ground, air, naval) in that order.                                     *)
(***************************************************************************)
C9_GameModesWellFormed ==
    \A i \in 1..Len(maps) :
        LET rec == maps[i][2]
        IN /\ Has(rec, "game_modes")
           /\ LET modes == rec["game_modes"]
              IN /\ Len(modes) >= 1
                 /\ \/ modes = <<TokUnknown>>
                    \/ /\ \A k \in 1..Len(modes) : ModeRank(modes[k]) >= 1
                       /\ \A k \in 1..(Len(modes) - 1) :
                            ModeRank(modes[k]) < ModeRank(modes[k + 1])

\* the returned collection holds a record with several modes and one with the fallback
C9_Witness ==
    /\ pc = "extracted"
    /\ \E i \in 1..Len(maps) : Len(maps[i][2]["game_modes"]) >= 2
    /\ \E i \in 1..Len(maps) : maps[i][2]["game_modes"] = <<TokUnknown>>

(***************************************************************************)
(* C10: a second run on the unchanged directory leaves both output files   *)
(* with the contents the first run gave them, whatever order the listing   *)
(* came in.                                                                *)
(***************************************************************************)
C10_RerunReproducesOutputs ==
    (run = "second" /\ firstPc = "done" /\ pc = "done") =>
        /\ jsonFile = startJson
        /\ rustFile = startRust

====
